---- MODULE Spec2Model ----
(***************************************************************************)
(* Model of homework.py: a bot that polls the homework-review API, turns   *)
(* the last listed homework into a report and relays changes to one chat.  *)
(*                                                                         *)
(* Python strings are TLA+ strings, concatenated as the f-strings          *)
(* concatenate them.  The Russian literals of the source are written in    *)
(* Latin transliteration, one literal of the source per literal here.      *)
(* A Python exception is a record [kind, text]: kind is the class that     *)
(* the except clauses dispatch on, text is str(error).                     *)
(***************************************************************************)
EXTENDS Integers, Sequences, FiniteSets, TLC

(* ---------------------------- bounds ----------------------------------- *)

\* Number of iterations of main()'s while loop that are explored.
MaxCycles == 3

\* Longest homeworks list the API answers with.
MaxLen == 2

(* ------------------------ module constants ----------------------------- *)

\* homework.py:38
RETRY_TIME == 600

\* homework.py:196, the distance of the first poll cursor from time.time()
CURSOR_LAG == 1000000

\* time.time() when the process starts; the clock then advances by the sleeps
StartClock == 3000000

\* homework.py:50
EXPECTED_SUCCESS_KEYS == <<"current_date", "homeworks">>

StatusKeys == {"approved", "reviewing", "rejected"}

\* the vocabulary with the verdicts of 'approved' and 'rejected' exchanged
HOMEWORK_STATUSES_exchanged ==
    [s \in StatusKeys |->
        CASE s = "rejected"  -> "Rabota proverena: revyueru vsyo ponravilos. Ura!"
          [] s = "reviewing" -> "Rabota vzyata na proverku revyuerom."
          [] s = "approved"  -> "Rabota proverena: u revyuera est zamechaniya."]

\* homework.py:43-47
HOMEWORK_STATUSES ==
    [s \in StatusKeys |->
        CASE s = "approved"  -> "Rabota proverena: revyueru vsyo ponravilos. Ura!"
          [] s = "reviewing" -> "Rabota vzyata na proverku revyuerom."
          [] s = "rejected"  -> "Rabota proverena: u revyuera est zamechaniya."]

(* --------------------------- value domains ----------------------------- *)

\* dict.get() of a key that is not in the dict (None), and a key that is absent
Absent == "<absent>"

\* values of an environment variable: unset/empty, or set
TokenValues == {"", "token"}

\* what the API puts under homework_name and status of one homework
NameValues == {Absent, "", "hw1", "hw2"}
StatusValues == {Absent, "approved", "reviewing", "rejected", "unknown"}
AllHomeworks == [homework_name : NameValues, status : StatusValues]

\* The homeworks the polled API answers with in the runs of main(): every name
\* value with a status of the vocabulary and with one outside it, and one name
\* with a second status of the vocabulary.
Homeworks ==
    [homework_name : NameValues, status : {"approved", "unknown"}]
    \cup {[homework_name |-> "hw1", status |-> "rejected"]}

\* server-reported current_date values
Dates == {0, 1000}

RECURSIVE SeqsUpTo(_, _)
SeqsUpTo(S, n) ==
    IF n = 0 THEN {<<>>}
    ELSE LET shorter == SeqsUpTo(S, n - 1)
         IN  shorter \cup {Append(q, x) : q \in {r \in shorter : Len(r) = n - 1}, x \in S}

HomeworkLists == SeqsUpTo(Homeworks, MaxLen)

\* The parsed JSON body. type is the JSON type of the body, keys the top-level
\* keys it has, homeworks_type the JSON type of the value under 'homeworks'.
NoResponse ==
    [type |-> "none", keys |-> {}, current_date |-> 0,
     homeworks_type |-> "none", homeworks |-> <<>>]

WellFormedResponses ==
    {[type |-> "dict", keys |-> {"current_date", "homeworks"}, current_date |-> d,
      homeworks_type |-> "list", homeworks |-> h] : d \in Dates, h \in HomeworkLists}

MalformedResponses ==
    {[type |-> "list", keys |-> {}, current_date |-> 0,
      homeworks_type |-> "none", homeworks |-> <<>>]}
    \cup {[type |-> "dict", keys |-> k, current_date |-> 1000,
           homeworks_type |-> IF "homeworks" \in k THEN "list" ELSE "none",
           homeworks |-> <<>>] :
            k \in (SUBSET {"current_date", "homeworks"}) \ {{"current_date", "homeworks"}}}
    \cup {[type |-> "dict", keys |-> {"current_date", "homeworks"}, current_date |-> 1000,
           homeworks_type |-> "dict", homeworks |-> <<>>]}

Responses == WellFormedResponses \cup MalformedResponses

\* What the HTTP exchange of requests.get does: the transport fails, or the
\* server answers with a status code and a body that is JSON (json) or not.
HttpOutcomes ==
    {[transport |-> "failed", status_code |-> 0, body |-> "none", json |-> NoResponse]}
    \cup {[transport |-> "ok", status_code |-> 500, body |-> "text", json |-> NoResponse]}
    \cup {[transport |-> "ok", status_code |-> 200, body |-> "text", json |-> NoResponse]}
    \cup {[transport |-> "ok", status_code |-> 200, body |-> "json", json |-> r] :
            r \in Responses}

\* What bot.send_message of the telegram client does
DeliveryOutcomes == {"ok", "TelegramError"}

\* The build's behaviour on dict[slice]: TypeError (unhashable slice) before
\* Python 3.12, KeyError from 3.12 on.
DictSliceErrors == {"TypeError", "KeyError"}

(* ----------------------------- exceptions ------------------------------ *)

NoError == [kind |-> "none", text |-> ""]

Raise(k, t) == [kind |-> k, text |-> t]

\* The exception e as an observation: by is the operation whose call raised it
NoRaise == [kind |-> "none", text |-> "", by |-> "none"]
RaisedBy(e, op) ==
    IF e.kind = "none" THEN NoRaise ELSE [kind |-> e.kind, text |-> e.text, by |-> op]

\* a report dict {'name': ..., 'output': ...}
NoReport == [name |-> "<none>", output |-> "<none>"]

\* An argument of send_message: a str, or the report dict itself
StrArg(s) == [type |-> "str", str |-> s, dict |-> NoReport]
DictArg(r) == [type |-> "dict", str |-> "", dict |-> r]

\* the first element taken for the most recent one
Last_first(s) == s[1]

\* s[-1] (homework.py:210)
Last(s) == s[Len(s)]

(* ------------------------------ Notifier ------------------------------- *)

\* send_message with the except clause lost: a delivery failure is not raised
send_message_swallowing(message, delivery, slice_error) ==
    IF message.type # "str"
    THEN [error |-> Raise(slice_error, "dict cannot be sliced"), bot |-> <<>>]
    ELSE [error |-> NoError,
          bot |-> <<[text |-> message.str, delivered |-> delivery = "ok"]>>]

\* send_message that tries the bot a second time after a TelegramError
send_message_retrying(message, delivery, slice_error) ==
    IF message.type # "str"
    THEN [error |-> Raise(slice_error, "dict cannot be sliced"), bot |-> <<>>]
    ELSE IF delivery = "TelegramError"
         THEN [error |-> NoError,
               bot |-> <<[text |-> message.str, delivered |-> FALSE],
                         [text |-> message.str, delivered |-> TRUE]>>]
         ELSE [error |-> NoError,
               bot |-> <<[text |-> message.str, delivered |-> TRUE]>>]

\* send_message (homework.py:53-69).  message[:SHORTENING] is evaluated first,
\* inside the try: a dict cannot be sliced, and the error it raises is no
\* TelegramError, so it leaves send_message as it is and the bot is not reached.
\* A str is handed to bot.send_message; a TelegramError of the client is
\* re-raised as TelegramException.
\* Result: error raised (or NoError), and the bot calls made, <<[text, delivered]>>.
send_message(message, delivery, slice_error) ==
    IF message.type # "str"
    THEN [error |-> Raise(slice_error, "dict cannot be sliced"), bot |-> <<>>]
    ELSE IF delivery = "TelegramError"
         THEN [error |-> Raise("TelegramException",
                               "Oshibka otpravki telegram soobscheniya: " \o delivery),
               bot |-> <<[text |-> message.str, delivered |-> FALSE]>>]
         ELSE [error |-> NoError,
               bot |-> <<[text |-> message.str, delivered |-> TRUE]>>]

(* ------------------------------- Fetcher ------------------------------- *)

\* homework.py:82-83
from_date_of(timestamp, now) == IF timestamp # 0 THEN timestamp ELSE now

\* homework.py:88-96: the body of the first try block of get_api_answer
request_errors(http, params) ==
    IF http.transport = "failed"
    THEN Raise("RequestException", "transport failure")
    ELSE IF http.status_code # 200
         THEN Raise("WrongAPIRequest",
                    "Otvet servera ne yavlyaetsya uspeshnym: params = " \o ToString(params)
                    \o "; http_code = " \o ToString(http.status_code))
         ELSE NoError

\* homework.py:97-107: except Exception catches whatever the try body raised,
\* WrongAPIRequest included, and raises ConnectionError in its place
wrap_request_error(error, params) ==
    IF error.kind # "none"
    THEN Raise("ConnectionError",
               "Vo vremya podklyucheniya k endpointu proizoshla nepredvidennaya oshibka: "
               \o error.text \o " params = " \o ToString(params) \o ";")
    ELSE NoError

\* get_api_answer (homework.py:72-119).  Result: error raised (or NoError), the
\* parsed data, and the from_date the request carried.
get_api_answer(current_timestamp, now, http) ==
    LET params == from_date_of(current_timestamp, now)
        failure == wrap_request_error(request_errors(http, params), params)
    IN  IF failure.kind # "none"
        THEN [error |-> failure, data |-> NoResponse, from_date |-> params]
        ELSE IF http.body # "json"
             THEN [error |-> Raise("TypeError", "Otvet nelzya preobrazovat k formatu JSON"),
                   data |-> NoResponse, from_date |-> params]
             ELSE [error |-> NoError, data |-> http.json, from_date |-> params]

(* ------------------------------ Validator ------------------------------ *)

\* check_response without the check of the expected keys
check_response_without_keys(response) ==
    IF response.type # "dict"
    THEN [error |-> Raise("TypeError",
                          "Response is expected to be 'dict' class but it is " \o response.type),
          homeworks |-> <<>>]
    ELSE IF response.homeworks_type \notin {"list", "none"}
         THEN [error |-> Raise("TypeError",
                               "API response doesn't contain list of homeworks "
                               \o "under key 'homeworks'"),
               homeworks |-> <<>>]
         ELSE [error |-> NoError, homeworks |-> response.homeworks]

\* check_response (homework.py:122-147).  Result: error raised (or NoError) and
\* the homeworks list returned.
check_response(response) ==
    IF response.type # "dict"
    THEN [error |-> Raise("TypeError",
                          "Response is expected to be 'dict' class but it is " \o response.type),
          homeworks |-> <<>>]
    ELSE IF \E i \in 1..Len(EXPECTED_SUCCESS_KEYS) :
                EXPECTED_SUCCESS_KEYS[i] \notin response.keys
         THEN [error |-> Raise("KeyError",
                               "V otvete API otsutstvuyut neobhodimye klyuchi "
                               \o EXPECTED_SUCCESS_KEYS[1] \o "i / ili "
                               \o EXPECTED_SUCCESS_KEYS[2]),
               homeworks |-> <<>>]
         ELSE IF response.homeworks_type # "list"
              THEN [error |-> Raise("TypeError",
                                    "API response doesn't contain list of homeworks "
                                    \o "under key 'homeworks'"),
                    homeworks |-> <<>>]
              ELSE [error |-> NoError, homeworks |-> response.homeworks]

(* ------------------------------ Formatter ------------------------------ *)

\* parse_status without the check of the status: the status itself is the verdict
parse_status_any_status(homework) ==
    IF homework.homework_name = Absent \/ homework.homework_name = ""
    THEN [error |-> Raise("KeyError", "V domashney rabote v otvete ot API otsutstvuyut klyuch"),
          value |-> ""]
    ELSE [error |-> NoError,
          value |-> "Izmenilsya status proverki raboty \"" \o homework.homework_name
                    \o "\". " \o homework.status]

\* parse_status (homework.py:150-169).  homework.get() gives None for a key
\* that is absent; None and '' are both falsy.  Result: error raised (or
\* NoError) and the sentence returned.
parse_status(homework) ==
    LET homework_name == homework.homework_name
        homework_status == homework.status
    IN  IF homework_name = Absent \/ homework_name = ""
        THEN [error |-> Raise("KeyError",
                              "V domashney rabote v otvete ot API otsutstvuyut klyuch "
                              \o "\"homework_name\" : homework = {" \o homework_name
                              \o ", " \o homework_status \o "}."),
              value |-> ""]
        ELSE IF homework_status \notin DOMAIN HOMEWORK_STATUSES
             THEN [error |-> Raise("ValueError",
                                   "V otvete ot API prishel neizvestnyi status raboty, status="
                                   \o homework_status \o "."),
                   value |-> ""]
             ELSE [error |-> NoError,
                   value |-> "Izmenilsya status proverki raboty \"" \o homework_name
                             \o "\". " \o HOMEWORK_STATUSES[homework_status]]

\* check_tokens (homework.py:172-179)
check_tokens(practicum, telegram, chat_id) ==
    practicum # "" /\ telegram # "" /\ chat_id # ""

(* ------------------------------- state --------------------------------- *)

VARIABLES
    PRACTICUM_TOKEN,     \* homework.py:17
    TELEGRAM_TOKEN,      \* homework.py:18
    TELEGRAM_CHAT_ID,    \* homework.py:19
    pc,                  \* where main() is
    clock,               \* time.time()
    current_timestamp,   \* the Poll Cursor, main's local
    current_report,      \* main's local dict, mutated in place
    prev_report,         \* the Report State, main's local
    response,            \* main's local: the Fetcher's result
    new_list_of_works,   \* main's local: the Validator's result
    error,               \* the exception in flight, NoError when there is none
    \* observations of the run; main() reads none of them
    cycle,               \* iterations of the while loop begun
    exchange,            \* what the HTTP exchange of this cycle did
    from_date,           \* the from_date of this cycle's request
    start,               \* Poll Cursor and Report State when this cycle began
    calls,               \* the calls of this cycle, in order
    sent,                \* texts handed to bot.send_message in this cycle
    raised,              \* the exception the try body of this cycle raised
    cand,                \* the candidate report of this cycle (lines 207-218)
    last,                \* what the cycle before this one did (date: the
                         \* current_date of its validated response; delivered:
                         \* the candidate it delivered; prior: the one the cycle
                         \* before it delivered), and (failed) the
                         \* candidate whose delivery failed and that no cycle
                         \* has computed again since
    \* the Formatter called on its own, outside main()
    records,             \* the homework records handed to parse_status in turn
    outputs              \* what parse_status did for each of them so far

vars == <<PRACTICUM_TOKEN, TELEGRAM_TOKEN, TELEGRAM_CHAT_ID, pc, clock,
          current_timestamp, current_report, prev_report, response,
          new_list_of_works, error, cycle, exchange, from_date, start, calls,
          sent, raised, cand, last, records, outputs>>

formatter == <<records, outputs>>
tokens == <<PRACTICUM_TOKEN, TELEGRAM_TOKEN, TELEGRAM_CHAT_ID>>
locals == <<current_timestamp, current_report, prev_report, response, new_list_of_works>>

NoExchange == [transport |-> "none", status_code |-> 0, body |-> "none"]

NoCycle ==
    [cand |-> NoReport, nonempty |-> FALSE, undelivered |-> FALSE, calls |-> <<>>,
     failed |-> NoReport, date |-> -1, empty |-> FALSE, delivered |-> NoReport,
     prior |-> NoReport]

EmptyReport == [name |-> "", output |-> ""]

\* The module is loaded and main() is about to run: the three environment
\* variables have been read, main's locals do not exist yet.
Init ==
    /\ PRACTICUM_TOKEN \in TokenValues
    /\ TELEGRAM_TOKEN \in TokenValues
    /\ TELEGRAM_CHAT_ID \in TokenValues
    /\ pc = "start"
    /\ clock = StartClock
    /\ current_timestamp = 0
    /\ current_report = EmptyReport
    /\ prev_report = EmptyReport
    /\ response = NoResponse
    /\ new_list_of_works = <<>>
    /\ error = NoError
    /\ cycle = 0
    /\ exchange = NoExchange
    /\ from_date = 0
    /\ start = [timestamp |-> 0, prev_report |-> EmptyReport]
    /\ calls = <<>>
    /\ sent = <<>>
    /\ raised = NoRaise
    /\ cand = NoReport
    /\ last = NoCycle
    /\ records = <<>>
    /\ outputs = <<>>

\* every exception of the try body taken by the except Exception clause
handler_of_any(e) == "except_Exception"

\* The except clause of main's try statement that takes an exception raised in
\* the try body (homework.py:232, 236)
handler_of(e) ==
    IF e.kind = "TelegramException" THEN "except_TelegramException" ELSE "except_Exception"

\* main, homework.py:184-199: the credential check and the locals' first values
Start ==
    /\ pc = "start"
    /\ IF check_tokens(PRACTICUM_TOKEN, TELEGRAM_TOKEN, TELEGRAM_CHAT_ID)
       THEN /\ pc' = "fetch"
            /\ current_timestamp' = clock - CURSOR_LAG
            /\ current_report' = EmptyReport
            /\ prev_report' = EmptyReport
            /\ start' = [timestamp |-> clock - CURSOR_LAG, prev_report |-> EmptyReport]
       ELSE /\ pc' = "SystemExit"
            /\ UNCHANGED <<current_timestamp, current_report, prev_report, start>>
    /\ UNCHANGED <<tokens, formatter, clock, response, new_list_of_works, error, cycle, exchange,
                   from_date, calls, sent, raised, cand, last>>

\* main, homework.py:203: response = get_api_answer(current_timestamp)
Fetch ==
    /\ pc = "fetch"
    /\ cycle < MaxCycles
    /\ \E http \in HttpOutcomes :
        LET r == get_api_answer(current_timestamp, clock, http)
        IN  /\ exchange' = [transport |-> http.transport,
                            status_code |-> http.status_code, body |-> http.body]
            /\ from_date' = r.from_date
            /\ error' = r.error
            /\ raised' = RaisedBy(r.error, "get_api_answer")
            /\ IF r.error.kind # "none"
               THEN /\ pc' = handler_of(r.error)
                    /\ UNCHANGED response
               ELSE /\ pc' = "validate"
                    /\ response' = r.data
    /\ cycle' = cycle + 1
    /\ calls' = <<"get_api_answer">>
    /\ UNCHANGED <<tokens, formatter, clock, current_timestamp, current_report, prev_report,
                   new_list_of_works, start, sent, cand, last>>

\* the cursor never advanced
next_timestamp_kept(resp, timestamp) == timestamp

\* main, homework.py:205-206: response.get('current_date', current_timestamp)
next_timestamp(resp, timestamp) ==
    IF EXPECTED_SUCCESS_KEYS[1] \in resp.keys THEN resp.current_date ELSE timestamp

\* main, homework.py:204-206: the Validator, then the cursor
Validate ==
    /\ pc = "validate"
    /\ LET r == check_response(response)
       IN  /\ error' = r.error
           /\ raised' = RaisedBy(r.error, "check_response")
           /\ IF r.error.kind # "none"
              THEN /\ pc' = handler_of(r.error)
                   /\ UNCHANGED <<new_list_of_works, current_timestamp>>
              ELSE /\ pc' = "build"
                   /\ new_list_of_works' = r.homeworks
                   /\ current_timestamp' = next_timestamp(response, current_timestamp)
    /\ calls' = Append(calls, "check_response")
    /\ UNCHANGED <<tokens, formatter, clock, current_report, prev_report, response, cycle,
                   exchange, from_date, start, sent, cand, last>>

\* main, homework.py:207-218: the candidate report.  new_work['homework_name']
\* (line 211) raises KeyError when the key is absent; when it is there the name
\* is stored in current_report before parse_status runs, so an error of
\* parse_status leaves the new name in current_report.
Build ==
    /\ pc = "build"
    /\ IF Len(new_list_of_works) > 0
       THEN LET new_work == Last(new_list_of_works)
                named == [current_report EXCEPT !.name = new_work.homework_name]
                r == parse_status(new_work)
            IN  IF new_work.homework_name = Absent
                THEN /\ error' = Raise("KeyError", "'homework_name'")
                     /\ raised' = RaisedBy(error', "main")
                     /\ pc' = handler_of(error')
                     /\ UNCHANGED <<current_report, cand, calls>>
                ELSE /\ calls' = Append(calls, "parse_status")
                     /\ error' = r.error
                     /\ raised' = RaisedBy(r.error, "parse_status")
                     /\ IF r.error.kind # "none"
                        THEN /\ current_report' = named
                             /\ pc' = handler_of(r.error)
                             /\ UNCHANGED cand
                        ELSE /\ current_report' = [named EXCEPT !.output = r.value]
                             /\ cand' = current_report'
                             /\ pc' = "compare"
       ELSE /\ current_report' = [current_report EXCEPT !.output = "Net novyh rabot"]
            /\ cand' = current_report'
            /\ pc' = "compare"
            /\ UNCHANGED <<error, raised, calls>>
    /\ UNCHANGED <<tokens, formatter, clock, current_timestamp, prev_report, response,
                   new_list_of_works, cycle, exchange, from_date, start, sent, last>>

\* main, homework.py:221-223
status_message(report) ==
    "Izmenilsya status proverki raboty " \o report.name \o ". " \o report.output

\* the status notification not guarded by the homeworks list
should_send_always(works) == TRUE

\* main, homework.py:226: the guard of the status notification
should_send(works) == Len(works) > 0

\* the Report State kept when nothing was sent
unsent_report_kept(report, previous) == previous

\* main, homework.py:228, reached with the send of line 227 skipped: the
\* Report State becomes a copy of the candidate
unsent_report(report, previous) == report

\* main, homework.py:220-230: compare with the Report State, notify, remember
Compare ==
    /\ pc = "compare"
    /\ IF current_report # prev_report
       THEN IF should_send(new_list_of_works)
            THEN \E delivery \in DeliveryOutcomes, slice_error \in DictSliceErrors :
                    LET r == send_message(StrArg(status_message(current_report)),
                                          delivery, slice_error)
                    IN  /\ calls' = Append(calls, "send_message")
                        /\ sent' = sent \o r.bot
                        /\ error' = r.error
                        /\ raised' = RaisedBy(r.error, "send_message")
                        /\ IF r.error.kind # "none"
                           THEN /\ pc' = handler_of(r.error)
                                /\ UNCHANGED prev_report
                           ELSE /\ pc' = "finally"
                                /\ prev_report' = current_report
            ELSE /\ prev_report' = unsent_report(current_report, prev_report)
                 /\ pc' = "finally"
                 /\ UNCHANGED <<calls, sent, error, raised>>
       ELSE /\ pc' = "finally"
            /\ UNCHANGED <<prev_report, calls, sent, error, raised>>
    /\ UNCHANGED <<tokens, formatter, clock, current_timestamp, current_report, response,
                   new_list_of_works, cycle, exchange, from_date, start, cand, last>>

\* the handler of a delivery failure putting the Poll Cursor back
ExceptTelegramException_rollback ==
    /\ pc = "except_TelegramException"
    /\ error' = NoError
    /\ pc' = "finally"
    /\ current_timestamp' = start.timestamp
    /\ UNCHANGED <<tokens, formatter, clock, current_report, prev_report, response,
                   new_list_of_works, cycle, exchange, from_date, start, calls,
                   sent, raised, cand, last>>

\* main, homework.py:232-234: a delivery failure of the try body is logged
ExceptTelegramException ==
    /\ pc = "except_TelegramException"
    /\ error' = NoError
    /\ pc' = "finally"
    /\ UNCHANGED <<tokens, formatter, clock, locals, cycle, exchange, from_date, start, calls,
                   sent, raised, cand, last>>

\* main, homework.py:237-238
failure_message(e) == "Sboy v rabote programmy: " \o e.text

\* main, homework.py:241: what the handler hands to send_message
failure_notification(report) == DictArg(report)

\* main, homework.py:236-242: any other error of the try body.  An exception
\* that send_message raises here is raised inside the handler: no except clause
\* of the same try statement takes it, it stays in flight through finally.
ExceptException ==
    /\ pc = "except_Exception"
    /\ LET reported == [current_report EXCEPT !.output = failure_message(error)]
       IN  /\ current_report' = reported
           /\ IF reported # prev_report
              THEN \E delivery \in DeliveryOutcomes, slice_error \in DictSliceErrors :
                      LET r == send_message(failure_notification(reported),
                                            delivery, slice_error)
                      IN  /\ calls' = Append(calls, "send_message")
                          /\ sent' = sent \o r.bot
                          /\ error' = r.error
                          /\ IF r.error.kind # "none"
                             THEN UNCHANGED prev_report
                             ELSE prev_report' = reported
              ELSE /\ error' = NoError
                   /\ UNCHANGED <<prev_report, calls, sent>>
    /\ pc' = "finally"
    /\ UNCHANGED <<tokens, formatter, clock, current_timestamp, response, new_list_of_works,
                   cycle, exchange, from_date, start, raised, cand, last>>

\* a sleep that does not take place
time_sleep_skipped(now, secs) == now

\* time.sleep(secs) (homework.py:245): the clock when it returns
time_sleep(now, secs) == now + secs

\* main, homework.py:244-245 and 201: finally sleeps; then an exception still
\* in flight leaves the while loop and main(), otherwise the loop goes round.
\* response and new_list_of_works are assigned in the next iteration before
\* anything reads them, so their values are dropped here; the observations of
\* the cycle are summed up in last.
Sleep ==
    /\ pc = "finally"
    /\ clock' = time_sleep(clock, RETRY_TIME)
    /\ pc' = IF error.kind # "none" THEN "raised" ELSE "fetch"
    /\ last' = [cand |-> cand,
                nonempty |-> cand # NoReport /\ Len(new_list_of_works) > 0,
                undelivered |-> \E i \in 1..Len(sent) : ~sent[i].delivered,
                calls |-> Append(calls, "sleep"),
                failed |-> IF raised.by = "send_message" THEN cand
                           ELSE IF cand = last.failed THEN NoReport
                           ELSE last.failed,
                date |-> IF "check_response" \in {calls[i] : i \in 1..Len(calls)}
                            /\ raised.by # "check_response"
                         THEN response.current_date ELSE -1,
                empty |-> cand # NoReport /\ Len(new_list_of_works) = 0,
                delivered |-> IF \E i \in 1..Len(sent) : sent[i].delivered
                              THEN cand ELSE NoReport,
                prior |-> last.delivered]
    /\ response' = NoResponse
    /\ new_list_of_works' = <<>>
    /\ exchange' = NoExchange
    /\ from_date' = 0
    /\ calls' = <<>>
    /\ sent' = <<>>
    /\ raised' = NoRaise
    /\ cand' = NoReport
    /\ start' = [timestamp |-> current_timestamp, prev_report |-> prev_report]
    /\ UNCHANGED <<tokens, formatter, current_timestamp, current_report, prev_report, error,
                   cycle>>

Next ==
    \/ Start
    \/ Fetch
    \/ Validate
    \/ Build
    \/ Compare
    \/ ExceptTelegramException
    \/ ExceptException
    \/ Sleep

Spec == Init /\ [][Next]_vars

(* ----------------------- the Formatter on its own ---------------------- *)

\* parse_status is about to be called on each record of a list; main() is not
\* running.
FormatterInit ==
    /\ PRACTICUM_TOKEN = "token"
    /\ TELEGRAM_TOKEN = "token"
    /\ TELEGRAM_CHAT_ID = "token"
    /\ pc = "parse_status"
    /\ clock = StartClock
    /\ current_timestamp = 0
    /\ current_report = EmptyReport
    /\ prev_report = EmptyReport
    /\ response = NoResponse
    /\ new_list_of_works = <<>>
    /\ error = NoError
    /\ cycle = 0
    /\ exchange = NoExchange
    /\ from_date = 0
    /\ start = [timestamp |-> 0, prev_report |-> EmptyReport]
    /\ calls = <<>>
    /\ sent = <<>>
    /\ raised = NoRaise
    /\ cand = NoReport
    /\ last = NoCycle
    /\ records \in SeqsUpTo(AllHomeworks, MaxLen)
    /\ outputs = <<>>

\* parse_status(homework) for the next record of the list
ParseStatus ==
    /\ pc = "parse_status"
    /\ Len(outputs) < Len(records)
    /\ outputs' = Append(outputs, parse_status(records[Len(outputs) + 1]))
    /\ UNCHANGED <<tokens, pc, clock, locals, error, cycle, exchange, from_date, start,
                   calls, sent, raised, cand, last, records>>

FormatterNext == ParseStatus

FormatterSpec == FormatterInit /\ [][FormatterNext]_vars

(* ------------------------------ properties ----------------------------- *)

Called(op) == \E i \in 1..Len(calls) : calls[i] = op

\* The try statement of this cycle is over, the sleep of finally is next
EndOfCycle == pc = "finally"

\* The Fetcher and the Validator of this cycle have both returned
Validated == Called("check_response") /\ raised.by # "check_response"

\* Lines 207-218 of this cycle have run, on a list with a last record
Formatted == Validated /\ pc # "build" /\ Len(new_list_of_works) > 0

Delivered == \E i \in 1..Len(sent) : sent[i].delivered

\* C1: once the credential check has passed, no error of a cycle ends the
\* loop: every cycle, whatever its outcome, is followed by a new Fetcher call.
C1_LoopNeverEnds == [][pc = "finally" => pc' = "fetch"]_vars

\* Two consecutive cycles have computed the same candidate report, both from
\* homeworks that were not empty, and the second of them is over
SameCandidateAgain ==
    /\ EndOfCycle
    /\ cand # NoReport
    /\ Len(new_list_of_works) > 0
    /\ last.nonempty
    /\ cand = last.cand

\* C2 as stated: of two consecutive cycles that compute the same candidate
\* report from non-empty homeworks, the second does not invoke the Notifier.
C2_SecondNeverNotifies == SameCandidateAgain => ~Called("send_message")

\* C2 as amended: the second of two such cycles invokes the Notifier exactly
\* when the delivery of the first one failed; otherwise only the first can.
C2_SecondNotifiesOnlyAfterFailure ==
    SameCandidateAgain => (Called("send_message") <=> last.undelivered)

C2_Witness ==
    /\ SameCandidateAgain
    /\ \E i \in 1..Len(last.calls) : last.calls[i] = "send_message"
    /\ ~last.undelivered
    /\ ~Called("send_message")

\* C3: a cycle whose validated response has no homeworks sends nothing to the
\* chat, whatever the Report State was; the placeholder is never sent.
C3_EmptyHomeworksSendNothing ==
    (Validated /\ new_list_of_works = <<>>) => (sent = <<>> /\ ~Called("send_message"))

C3_Witness ==
    /\ EndOfCycle
    /\ Validated
    /\ new_list_of_works = <<>>
    /\ start.prev_report # EmptyReport
    /\ current_report # start.prev_report
    /\ sent = <<>>

\* C4: the Report State changes only in a cycle with a successful send, and
\* then it is what that notification said.
C4_ReportStateOnlyAfterSend ==
    prev_report # start.prev_report =>
        \E i \in 1..Len(sent) :
            sent[i].delivered /\ sent[i].text = status_message(prev_report)

\* C5: after a Fetcher, Validator or Formatter error the failure notification
\* with the error's description is attempted exactly when the description is
\* not the one reported last, and a failed delivery of it stays in the cycle.
C5_FailureNotificationBestEffort ==
    (EndOfCycle /\ raised.by \in {"get_api_answer", "check_response", "main", "parse_status"}) =>
        /\ error = NoError
        /\ sent # <<>> <=> failure_message(raised) # start.prev_report.output
        /\ \A i \in 1..Len(sent) : sent[i].text = failure_message(raised)

\* C6: a cycle whose Fetcher and Validator succeed ends with the Poll Cursor at
\* the response's current_date; a cycle whose Fetcher or Validator fails ends
\* with the Poll Cursor where it was when the cycle began.
C6_CursorFollowsValidatedResponse ==
    EndOfCycle =>
        /\ Validated => current_timestamp = response.current_date
        /\ raised.by \in {"get_api_answer", "check_response"} =>
                current_timestamp = start.timestamp

C6_Witness ==
    /\ EndOfCycle
    /\ cycle = 2
    /\ raised.by = "check_response"
    /\ current_timestamp = 1000
    /\ current_timestamp # clock - CURSOR_LAG

\* The response of the end-to-end example
ExampleResponse ==
    [type |-> "dict", keys |-> {"current_date", "homeworks"}, current_date |-> 1000,
     homeworks_type |-> "list",
     homeworks |-> <<[homework_name |-> "hw1", status |-> "approved"]>>]

\* C7: from the initial Report State, the cycle of the example response sends
\* exactly the Formatter's sentence for hw1 and leaves the Poll Cursor at 1000.
C7_EndToEndExample ==
    (EndOfCycle /\ cycle = 1 /\ response = ExampleResponse) =>
        /\ Len(sent) = 1
        /\ sent[1].text = "Izmenilsya status proverki raboty \"hw1\". "
                          \o "Rabota proverena: revyueru vsyo ponravilos. Ura!"
        /\ current_timestamp = 1000

\* C8: the Fetcher's three failures are three kinds of error: an API request
\* error for a status that is not 200, a connection error for a transport
\* failure, a decode error for a body that is not JSON.
C8_FetcherErrorsDistinct ==
    raised.by = "get_api_answer" =>
        /\ raised.kind = "WrongAPIRequest"
                <=> (exchange.transport = "ok" /\ exchange.status_code # 200)
        /\ raised.kind = "ConnectionError" <=> exchange.transport = "failed"
        /\ raised.kind = "TypeError"
                <=> (exchange.transport = "ok" /\ exchange.status_code = 200
                     /\ exchange.body # "json")

\* The parsed response of this cycle is an object without one of the two keys
MissingKey ==
    /\ Called("check_response")
    /\ response.type = "dict"
    /\ \E i \in 1..Len(EXPECTED_SUCCESS_KEYS) : EXPECTED_SUCCESS_KEYS[i] \notin response.keys

\* C9 as stated: when the response lacks one of the keys the Validator signals
\* the error and neither the Formatter nor the Notifier is called in the cycle.
C9_NoFormatterNoNotifier ==
    MissingKey =>
        /\ raised.by = "check_response"
        /\ ~Called("parse_status")
        /\ ~Called("send_message")

\* C9 as amended: when the response lacks one of the keys the Validator signals
\* KeyError, the Formatter is not called, nothing is handed to the bot, and
\* the Notifier is called by the error handler only, after the try body.
C9_NoFormatterNoStatusNotification ==
    MissingKey =>
        /\ raised.by = "check_response"
        /\ raised.kind = "KeyError"
        /\ ~Called("parse_status")
        /\ sent = <<>>
        /\ Called("send_message") => pc = "finally"

C9_Witness ==
    /\ MissingKey
    /\ EndOfCycle
    /\ "homeworks" \notin response.keys
    /\ calls = <<"get_api_answer", "check_response", "send_message">>

\* The last record of this cycle's homeworks has a status outside the vocabulary
BadStatus == Formatted /\ Last(new_list_of_works).status \notin DOMAIN HOMEWORK_STATUSES

\* C10 as stated: when the last record's status is outside the vocabulary the
\* Formatter signals the error and no status message for the record is sent.
C10_FormatterRejectsStatus ==
    BadStatus => (raised.by = "parse_status" /\ sent = <<>>)

\* C10 as amended: when the last record's status is outside the vocabulary the
\* cycle raises before any send, the Formatter's error if the record has the
\* key homework_name and main's KeyError for the key if it has not; and a text
\* handed to the bot is always the status message of a last record that the
\* Formatter accepted in the same cycle.
C10_BadStatusNeverNotified ==
    /\ BadStatus =>
        /\ raised.by = (IF Last(new_list_of_works).homework_name = Absent
                        THEN "main" ELSE "parse_status")
        /\ raised.kind \in {"KeyError", "ValueError"}
        /\ sent = <<>>
    /\ sent # <<>> =>
        /\ Formatted
        /\ parse_status(Last(new_list_of_works)).error = NoError
        /\ \A i \in 1..Len(sent) :
              sent[i].text =
                status_message([name |-> Last(new_list_of_works).homework_name,
                                output |-> parse_status(Last(new_list_of_works)).value])

C10_Witness ==
    /\ EndOfCycle
    /\ BadStatus
    /\ raised.by = "parse_status"
    /\ raised.kind = "ValueError"
    /\ Called("send_message")
    /\ sent = <<>>


\* The process has ended by itself: SystemExit of the credential check, or an
\* exception that left main()
Stopped == pc \in {"SystemExit", "raised"}

\* The credential check of main(): the loop is entered only with all three
\* credentials set, and with one missing main() exits before any call
CredentialGate ==
    /\ pc = "SystemExit" =>
            /\ ~check_tokens(PRACTICUM_TOKEN, TELEGRAM_TOKEN, TELEGRAM_CHAT_ID)
            /\ cycle = 0 /\ calls = <<>> /\ sent = <<>> /\ last = NoCycle
    /\ pc \notin {"start", "SystemExit"} =>
            (PRACTICUM_TOKEN # "" /\ TELEGRAM_TOKEN # "" /\ TELEGRAM_CHAT_ID # "")
    /\ (PRACTICUM_TOKEN = "" \/ TELEGRAM_TOKEN = "" \/ TELEGRAM_CHAT_ID = "") =>
            pc \in {"start", "SystemExit"}

\* C11: with a credential missing main() stops with SystemExit before any
\* Fetcher or Notifier call, the loop is entered only with all three set, and
\* the process stops by itself in no other way.
C11_OnlyCredentialsStop ==
    /\ CredentialGate
    /\ Stopped => pc = "SystemExit"


\* The sentence of the Formatter for a name and a verdict text
Template(name, verdict) ==
    "Izmenilsya status proverki raboty \"" \o name \o "\". " \o verdict

\* C12: for a record with a non-empty name and a status of the vocabulary the
\* Formatter returns the template with the name and the verdict of that
\* status, one of three templates keyed by status; for a record with an empty
\* or absent name, or a status outside the vocabulary, it raises and returns
\* nothing.
C12_FormatterTemplates ==
    \A i \in 1..Len(outputs) :
        LET name == records[i].homework_name
            status == records[i].status
        IN  IF name \notin {Absent, ""} /\ status \in {"reviewing", "approved", "rejected"}
            THEN /\ outputs[i].error = NoError
                 /\ status = "approved" =>
                        outputs[i].value =
                            Template(name, "Rabota proverena: revyueru vsyo ponravilos. Ura!")
                 /\ status = "reviewing" =>
                        outputs[i].value =
                            Template(name, "Rabota vzyata na proverku revyuerom.")
                 /\ status = "rejected" =>
                        outputs[i].value =
                            Template(name, "Rabota proverena: u revyuera est zamechaniya.")
            ELSE /\ outputs[i].error.kind \in {"KeyError", "ValueError"}
                 /\ outputs[i].value = ""

C12_Witness ==
    /\ Len(outputs) = 2
    /\ records[1] = [homework_name |-> "hw1", status |-> "reviewing"]
    /\ outputs[1].value = Template("hw1", "Rabota vzyata na proverku revyuerom.")
    /\ records[2] = [homework_name |-> "hw2", status |-> "unknown"]
    /\ outputs[2].error.kind = "ValueError"


Count(op) == Cardinality({i \in 1..Len(calls) : calls[i] = op})

\* C13: when the delivery of a status notification fails, the Report State
\* stays as it was and no failure notification is attempted in that cycle; and
\* the next cycle that computes the same candidate report invokes the Notifier
\* for it again.
C13_UndeliveredIsRetried ==
    /\ (EndOfCycle /\ raised.by = "send_message") =>
            /\ prev_report = start.prev_report
            /\ Count("send_message") = 1
            /\ sent = <<[text |-> status_message(cand), delivered |-> FALSE]>>
    /\ (EndOfCycle /\ cand # NoReport /\ cand = last.failed) =>
            /\ Count("send_message") = 1
            /\ Len(sent) = 1
            /\ sent[1].text = status_message(cand)

C13_Witness ==
    /\ EndOfCycle
    /\ cand # NoReport
    /\ cand = last.failed
    /\ last.cand # cand
    /\ Delivered


CountIn(s, op) == Cardinality({i \in 1..Len(s) : s[i] = op})

\* A cycle of the loop is under way: its Fetcher call is made, its sleep is not
InCycle == pc \in {"validate", "build", "compare", "except_TelegramException",
                   "except_Exception", "finally"}

\* C14: every cycle, successful or failed, ends with exactly one sleep of
\* RETRY_TIME, after all of its Fetcher, Validator, Formatter and Notifier
\* calls; between two consecutive Fetcher calls there is exactly one sleep.
C14_OneSleepPerCycle ==
    /\ InCycle =>
            /\ clock = StartClock + (cycle - 1) * RETRY_TIME
            /\ Count("get_api_answer") = 1
            /\ calls[1] = "get_api_answer"
            /\ Count("sleep") = 0
    /\ pc \in {"fetch", "raised"} =>
            /\ clock = StartClock + cycle * RETRY_TIME
            /\ calls = <<>>
    /\ last.calls # <<>> =>
            /\ last.calls[1] = "get_api_answer"
            /\ CountIn(last.calls, "get_api_answer") = 1
            /\ last.calls[Len(last.calls)] = "sleep"
            /\ CountIn(last.calls, "sleep") = 1

C14_Witness ==
    /\ pc = "raised"
    /\ cycle = 2
    /\ last.calls = <<"get_api_answer", "check_response", "parse_status",
                      "send_message", "sleep">>
    /\ clock = StartClock + 2 * RETRY_TIME


\* C15: with one or more records the candidate report is built from the last
\* record only, its name and the Formatter's sentence for it, and no other
\* record produces a notification; with no record the candidate message is the
\* placeholder.
C15_CandidateFromLastRecord ==
    /\ cand # NoReport =>
            IF Len(new_list_of_works) > 0
            THEN LET new_work == new_list_of_works[Len(new_list_of_works)]
                 IN  /\ parse_status(new_work).error = NoError
                     /\ cand = [name |-> new_work.homework_name,
                                output |-> parse_status(new_work).value]
            ELSE cand.output = "Net novyh rabot"
    /\ \A i \in 1..Len(sent) :
            /\ Len(new_list_of_works) > 0
            /\ LET new_work == new_list_of_works[Len(new_list_of_works)]
               IN  sent[i].text = "Izmenilsya status proverki raboty "
                                  \o new_work.homework_name \o ". "
                                  \o parse_status(new_work).value

C15_Witness ==
    /\ EndOfCycle
    /\ new_list_of_works = <<[homework_name |-> "hw2", status |-> "approved"],
                             [homework_name |-> "hw1", status |-> "rejected"]>>
    /\ cand.name = "hw1"
    /\ Delivered


\* C16: in every cycle the Notifier is invoked at most once: never a status
\* notification and a failure notification both, never one of them twice.
C16_AtMostOneNotifierCall ==
    /\ Count("send_message") <= 1
    /\ Len(sent) <= 1
    /\ CountIn(last.calls, "send_message") <= 1

C16_Witness ==
    /\ EndOfCycle
    /\ raised.by = "send_message"
    /\ Count("send_message") = 1
    /\ Len(sent) = 1


\* C17: the Poll Cursor is advanced before the Formatter and the Notifier run
\* and is not put back: once the Validator has returned, and to the end of the
\* cycle whatever fails, it is the response's current_date; and the Fetcher
\* call after a cycle whose notification was not delivered is made with that
\* cursor (its request carries the clock instead when the cursor is 0).
C17_CursorAdvancedBeforeNotify ==
    /\ Validated => current_timestamp = response.current_date
    /\ (InCycle /\ last.undelivered) =>
            /\ start.timestamp = last.date
            /\ from_date = (IF last.date # 0 THEN last.date ELSE clock)

C17_Witness ==
    /\ InCycle
    /\ last.undelivered
    /\ last.date = 1000
    /\ from_date = 1000


\* C18: deduplication covers consecutive cycles only: the cycle with empty
\* homeworks that follows a delivered status notification for a record puts
\* the record's name with the placeholder into the Report State and sends
\* nothing, so the cycle after it, if its last record is that record with the
\* same status, invokes the Notifier for it again.
C18_EmptyCycleResetsDeduplication ==
    /\ (EndOfCycle /\ Validated /\ new_list_of_works = <<>> /\ last.delivered # NoReport) =>
            /\ start.prev_report = last.delivered
            /\ sent = <<>>
            /\ prev_report = [name |-> last.delivered.name, output |-> "Net novyh rabot"]
    /\ (EndOfCycle /\ cand # NoReport /\ Len(new_list_of_works) > 0
        /\ last.empty /\ last.prior = cand) =>
            /\ Count("send_message") = 1
            /\ Len(sent) = 1
            /\ sent[1].text = status_message(cand)

C18_Witness ==
    /\ EndOfCycle
    /\ cand # NoReport
    /\ Len(new_list_of_works) > 0
    /\ last.empty
    /\ last.prior = cand
    /\ sent = <<[text |-> status_message(cand), delivered |-> TRUE]>>

====
